---- MODULE Spec2Model ----
(***************************************************************************)
(* S3WebServer (main.go): an HTTP server that serves every request path    *)
(* from an S3 bucket.  The model covers                                    *)
(*   - main: readConfig, the ListenAndServe goroutine, signal.Notify on an *)
(*     unbuffered channel, srv.Shutdown under a timeout context, exit;     *)
(*   - methodHandler and the four serve*S3File handlers, with              *)
(*     handleHTTPException, run on gin's NoRoute chain;                    *)
(*   - the bucket behind s3Session, as a map from keys to objects.         *)
(* Strings that the code slices or concatenates (URL paths, keys, the      *)
(* homepage, header values, response bodies) are sequences of one-char     *)
(* or multi-char string pieces; concatenation is \o.                       *)
(***************************************************************************)
EXTENDS Integers, Sequences, FiniteSets, TLC

VARIABLES
    pc,            \* position of the main goroutine
    exit,          \* "running", or how the process ended
    configHolder,  \* the loaded *webConfig (main.go:39)
    srv,           \* the http.Server / ListenAndServe goroutine
    ctx,           \* the shutdown context's timer
    sigSent,       \* number of SIGINT/SIGTERM sent to the process so far
    inflight,      \* number of requests accepted and not yet answered
    store,         \* the bucket: key -> object
    last           \* the request context being answered: request, store calls, response

vars == <<pc, exit, configHolder, srv, ctx, sigSent, inflight, store, last>>

----------------------------------------------------------------------------
(* Bounds of the model *)

\* longest request path, in characters, the leading "/" included
MaxPathLen == 2
\* most objects the bucket holds at once
MaxObjects == 1
\* most requests in flight at once
MaxInFlight == 1
\* most signals sent to the process
MaxSignals == 2

\* characters of request paths
Chars == {"/", "a", "."}
\* request bodies of PUT
Bodies == {<<"x">>, <<"y", "y">>}

\* r.URL.Path of a request in origin form: "/" followed by any characters
Paths == UNION {{<<"/">> \o s : s \in [1..n -> Chars]} : n \in 0..(MaxPathLen - 1)}

----------------------------------------------------------------------------
(* Errors: nil, an awserr.Error (Code, Message, OrigErr), or a plain error *)

NilErr == [isNil |-> TRUE, aws |-> FALSE, code |-> "", message |-> "", orig |-> ""]
AwsErr(code, message, orig) ==
    [isNil |-> FALSE, aws |-> TRUE, code |-> code, message |-> message, orig |-> orig]
PlainErr(message) ==
    [isNil |-> FALSE, aws |-> FALSE, code |-> "", message |-> message, orig |-> ""]

\* errors the S3 service or the SDK transport may return to any call
StoreFaults == {
    NilErr,
    AwsErr("MissingContentLength", "You must provide the Content-Length HTTP header.", ""),
    AwsErr("RequestError", "send request failed", "dial tcp: i/o timeout") }

\* errors ioutil.ReadAll(r.Body) may return
ReadFaults == {NilErr, PlainErr("unexpected EOF")}

----------------------------------------------------------------------------
(* The bucket behind s3Session *)

EmptyStore == [k \in {} |-> <<>>]

\* S3 computes the ETag from the content (quoted MD5)
ETagOf(body) == <<"\"md5(">> \o body \o <<")\"">>

\* S3 stores objects PUT without a Content-Type as binary/octet-stream
NewObject(body) == [body |-> body, contentType |-> <<"binary/octet-stream">>,
                    lastModified |-> <<"2006-01-02 15:04:05 +0000 UTC">>]

\* the SDK validates the input before sending: Bucket must be non-empty
ParamErr == AwsErr("InvalidParameter", "1 validation error(s) found.", "")

StoreErr(input, fault) == IF input.bucket = "" THEN ParamErr ELSE fault

\* s3Session.GetObject
GetObject(st, input, fault) ==
    LET e == StoreErr(input, fault) IN
    IF ~e.isNil THEN [err |-> e, store |-> st]
    ELSE IF input.key \notin DOMAIN st
         THEN [err |-> AwsErr("NoSuchKey", "The specified key does not exist.", ""),
               store |-> st]
         ELSE [err |-> NilErr, store |-> st]

\* s3Session.HeadObject: NotFound for a missing key, NotModified when the
\* IfNoneMatch token equals the object's ETag
HeadObject(st, input, fault) ==
    LET e == StoreErr(input, fault) IN
    IF ~e.isNil THEN [err |-> e, store |-> st]
    ELSE IF input.key \notin DOMAIN st
         THEN [err |-> AwsErr("NotFound", "Not Found", ""), store |-> st]
         ELSE IF input.ifNoneMatch # <<>>
                 /\ input.ifNoneMatch = ETagOf(st[input.key].body)
              THEN [err |-> AwsErr("NotModified", "Not Modified", ""), store |-> st]
              ELSE [err |-> NilErr, store |-> st]

\* s3Session.PutObject: creates or replaces the object
PutObject(st, input, fault) ==
    LET e == StoreErr(input, fault) IN
    IF ~e.isNil THEN [err |-> e, store |-> st]
    ELSE [err |-> NilErr,
          store |-> [k \in DOMAIN st \cup {input.key} |->
                        IF k = input.key THEN NewObject(input.body) ELSE st[k]]]

\* s3Session.DeleteObject: succeeds whether or not the key exists
DeleteObject(st, input, fault) ==
    LET e == StoreErr(input, fault) IN
    IF ~e.isNil THEN [err |-> e, store |-> st]
    ELSE [err |-> NilErr, store |-> [k \in DOMAIN st \ {input.key} |-> st[k]]]

\* the input structs the handlers build
S3Input(op, bucket, key, ifNoneMatch, body) ==
    [op |-> op, bucket |-> bucket, key |-> key, ifNoneMatch |-> ifNoneMatch, body |-> body]

----------------------------------------------------------------------------
(* The response writer.  router.NoRoute(methodHandler) runs the handler on *)
(* gin's not-found chain: gin presets the status to 404 before the chain,  *)
(* WriteHeader only records a status, the first Write sends status and     *)
(* headers, and after the chain gin sends its own 404 page when nothing    *)
(* was written and the status is still 404.                                *)

StatusOK == 200
StatusCreated == 201
StatusNoContent == 204
StatusNotModified == 304
StatusBadRequest == 400
StatusNotFound == 404
StatusMethodNotAllowed == 405
StatusInternalServerError == 500

HeaderNames == {"Content-Type", "Content-Length", "Last-Modified", "Etag",
                "Location", "X-Content-Type-Options"}

\* textproto.CanonicalMIMEHeaderKey, on the names the handlers use
CanonicalHeaderKey(name) == IF name = "ETag" THEN "Etag" ELSE name

\* the writer of a request routed to NoRoute, before the handler runs
NewWriter == [status |-> StatusNotFound,
              header |-> [h \in HeaderNames |-> <<>>],
              body |-> <<>>,
              written |-> FALSE]

\* w.Header().Set(name, value), as far as the response shows it
SetHeader(w, name, value) ==
    IF w.written THEN w  \* the headers were sent with the first Write
    ELSE [w EXCEPT !.header[CanonicalHeaderKey(name)] = value]

\* w.WriteHeader(code): records the status
WriteHeader(w, code) ==
    IF code > 0 /\ w.status # code THEN [w EXCEPT !.status = code] ELSE w

\* w.Write(data): sends status and headers if not yet sent, then the data
Write(w, data) == [w EXCEPT !.written = TRUE, !.body = @ \o data]

\* http.Error(w, msg, code): plain-text headers, the status, the message as a line
HttpError(w, msg, code) ==
    Write(WriteHeader(SetHeader(SetHeader(w, "Content-Type", <<"text/plain; charset=utf-8">>),
                                "X-Content-Type-Options", <<"nosniff">>),
                      code),
          msg \o <<"\n">>)

\* fmt.Sprintf("%d", n)
Digit(n) == CASE n = 0 -> "0" [] n = 1 -> "1" [] n = 2 -> "2" [] n = 3 -> "3"
              [] n = 4 -> "4" [] n = 5 -> "5" [] n = 6 -> "6" [] n = 7 -> "7"
              [] n = 8 -> "8" [] n = 9 -> "9"
RECURSIVE Itoa(_)
Itoa(n) == IF n < 10 THEN <<Digit(n)>> ELSE Itoa(n \div 10) \o <<Digit(n % 10)>>

(* path.Clean on a rooted path: empty and "." elements are dropped, ".."   *)
(* drops the element before it (nothing at the root).                      *)
RECURSIVE SplitPath(_)
SplitPath(s) ==
    IF s = <<>> THEN << <<>> >>
    ELSE LET rest == SplitPath(Tail(s)) IN
         IF Head(s) = "/" THEN << <<>> >> \o rest
         ELSE << <<Head(s)>> \o Head(rest) >> \o Tail(rest)

RECURSIVE CleanElems(_, _)
CleanElems(elems, out) ==
    IF elems = <<>> THEN out
    ELSE LET x == Head(elems) IN
         CleanElems(Tail(elems),
                    IF x = <<>> \/ x = <<".">> THEN out
                    ELSE IF x = <<".", ".">>
                         THEN (IF out = <<>> THEN out ELSE SubSeq(out, 1, Len(out) - 1))
                         ELSE Append(out, x))

RECURSIVE JoinElems(_)
JoinElems(elems) ==
    IF elems = <<>> THEN <<>> ELSE <<"/">> \o Head(elems) \o JoinElems(Tail(elems))

PathClean(url) ==
    LET out == CleanElems(SplitPath(url), <<>>) IN
    IF out = <<>> THEN <<"/">> ELSE JoinElems(out)

\* url.Parse(url).Host # "": a url "//host..." that does not start with "///"
HasHost(url) ==
    /\ Len(url) >= 3
    /\ url[1] = "/" /\ url[2] = "/" /\ url[3] # "/"

\* the Location http.Redirect sends for a url that starts with "/": a url
\* without scheme and host is cleaned, its trailing slash preserved
RedirectLocation(url) ==
    IF HasHost(url) THEN url
    ELSE LET c == PathClean(url) IN
         IF url[Len(url)] = "/" /\ c[Len(c)] # "/" THEN c \o <<"/">> ELSE c

\* http.Redirect(w, r, url, code)
HttpRedirect(w, method, url, code) ==
    LET w1 == SetHeader(w, "Location", RedirectLocation(url))
        hadCT == w.header["Content-Type"] # <<>>
        w2 == IF ~hadCT /\ method \in {"GET", "HEAD"}
              THEN SetHeader(w1, "Content-Type", <<"text/html; charset=utf-8">>)
              ELSE w1
        w3 == WriteHeader(w2, code)
    IN IF ~hadCT /\ method = "GET"
       THEN Write(w3, <<"<a href=\"">> \o RedirectLocation(url) \o <<"\">", "Created", "</a>.\n\n">>)
       ELSE w3

----------------------------------------------------------------------------
(* The handlers.  A request is [method, path, etag, ifNoneMatch, body]:    *)
(* r.Method, r.URL.Path, the request headers "ETag" and "If-None-Match",   *)
(* and the bytes of r.Body.  A handler returns the writer, the bucket, the *)
(* store calls it issued and the error it stopped on.                      *)

Request(method, path, etag, ifNoneMatch, body) ==
    [method |-> method, path |-> path, etag |-> etag,
     ifNoneMatch |-> ifNoneMatch, body |-> body]

Handled(w, st, calls, err) == [w |-> w, store |-> st, calls |-> calls, err |-> err]

\* faulty variant: "NotFound" (the code HeadObject returns) is not recognised
handleHTTPExceptionNoSuchKeyOnly(path, w, err) ==
    IF err.isNil THEN w
    ELSE IF err.aws
         THEN CASE err.code = "MissingContentLength" ->
                     HttpError(w, <<"Bad Request">>, StatusBadRequest)
                [] err.code = "NotModified" ->
                     HttpError(w, <<"Object not modified">>, StatusNotModified)
                [] err.code = "NoSuchKey" ->
                     HttpError(w, <<"Path '">> \o path \o <<"' not found: ", err.message>>,
                               StatusNotFound)
                [] OTHER ->
                     HttpError(w, <<"An internal error occurred: ", err.code, " = ",
                                    err.message>>
                                  \o (IF err.orig # "" THEN <<" (Cause: ", err.orig, ")">>
                                      ELSE <<>>),
                               StatusInternalServerError)
         ELSE HttpError(w, <<"An internal error occurred: ", err.message>>,
                        StatusInternalServerError)

\* handleHTTPException(path, w, err): the writer after it; it returns err itself
handleHTTPException(path, w, err) ==
    IF err.isNil THEN w
    ELSE IF err.aws
         THEN CASE err.code = "MissingContentLength" ->
                     HttpError(w, <<"Bad Request">>, StatusBadRequest)
                [] err.code = "NotModified" ->
                     HttpError(w, <<"Object not modified">>, StatusNotModified)
                [] err.code \in {"NoSuchKey", "NotFound"} ->
                     HttpError(w, <<"Path '">> \o path \o <<"' not found: ", err.message>>,
                               StatusNotFound)
                [] OTHER ->
                     LET cause == IF err.orig # ""
                                  THEN <<" (Cause: ", err.orig, ")">> ELSE <<>>
                     IN HttpError(w, <<"An internal error occurred: ", err.code, " = ",
                                       err.message>> \o cause,
                                  StatusInternalServerError)
         ELSE HttpError(w, <<"An internal error occurred: ", err.message>>,
                        StatusInternalServerError)

\* serveHeadS3File
serveHeadS3File(req, cfg, st, w, fault) ==
    LET filePath == Tail(req.path)
        etag == req.etag  \* r.Header.Get("ETag")
        input == S3Input("HeadObject", cfg.S3bucket, filePath,
                         IF etag # <<>> THEN etag ELSE <<>>, <<>>)
        r == HeadObject(st, input, fault)
        w0 == handleHTTPException(filePath, w, r.err)
    IN IF ~r.err.isNil THEN Handled(w0, r.store, <<input>>, r.err)
       ELSE LET obj == st[filePath]
                w1 == SetHeader(w0, "Content-Type", obj.contentType)
                w2 == SetHeader(w1, "Content-Length", Itoa(Len(obj.body)))
                w3 == SetHeader(w2, "Last-Modified", obj.lastModified)
                w4 == SetHeader(w3, "Etag", ETagOf(obj.body))
            IN Handled(w4, r.store, <<input>>, r.err)

\* serveGetS3File
serveGetS3File(req, cfg, st, w, fault) ==
    LET filePath == Tail(req.path)
        params == S3Input("GetObject", cfg.S3bucket, filePath, <<>>, <<>>)
        r == GetObject(st, params, fault)
        w0 == handleHTTPException(filePath, w, r.err)
    IN IF ~r.err.isNil THEN Handled(w0, r.store, <<params>>, r.err)
       ELSE LET obj == st[filePath]
                w1 == WriteHeader(w0, StatusOK)
                w2 == SetHeader(w1, "Content-Type", obj.contentType)
                w3 == SetHeader(w2, "Last-Modified", obj.lastModified)
                w4 == SetHeader(w3, "Etag", ETagOf(obj.body))
                w5 == SetHeader(w4, "Content-Length", Itoa(Len(obj.body)))
                \* io.Copy writes only when the object has bytes
                w6 == IF obj.body # <<>> THEN Write(w5, obj.body) ELSE w5
            IN Handled(w6, r.store, <<params>>, r.err)

\* servePutS3File: readErr is the error of ioutil.ReadAll(r.Body)
servePutS3File(req, cfg, st, w, readErr, fault) ==
    LET filePath == Tail(req.path)
        b == req.body
        wr == handleHTTPException(filePath, w, readErr)
    IN IF ~readErr.isNil THEN Handled(wr, st, <<>>, readErr)
       ELSE LET params == S3Input("PutObject", cfg.S3bucket, filePath, <<>>, b)
                r == PutObject(st, params, fault)
                w0 == handleHTTPException(filePath, wr, r.err)
            IN IF ~r.err.isNil THEN Handled(w0, r.store, <<params>>, r.err)
               ELSE LET w1 == SetHeader(w0, "ETag", ETagOf(b))  \* *resp.ETag
                        w2 == HttpRedirect(w1, req.method, <<"/">> \o filePath,
                                           StatusCreated)
                    IN Handled(w2, r.store, <<params>>, r.err)

\* faulty variant: answers 204 without asking the store
serveDeleteS3FileNoCall(req, cfg, st, w, fault) ==
    Handled(WriteHeader(w, StatusNoContent), st, <<>>, NilErr)

\* serveDeleteS3File
serveDeleteS3File(req, cfg, st, w, fault) ==
    LET filePath == Tail(req.path)
        params == S3Input("DeleteObject", cfg.S3bucket, filePath, <<>>, <<>>)
        r == DeleteObject(st, params, fault)
        w0 == handleHTTPException(filePath, w, r.err)
    IN IF ~r.err.isNil THEN Handled(w0, r.store, <<params>>, r.err)
       ELSE Handled(WriteHeader(w0, StatusNoContent), r.store, <<params>>, r.err)

\* faulty variant: an unsupported method is answered 400
methodSwitchBadRequest(req, cfg, st, w, readErr, fault) ==
    CASE req.method = "GET" -> serveGetS3File(req, cfg, st, w, fault)
      [] req.method = "PUT" -> servePutS3File(req, cfg, st, w, readErr, fault)
      [] req.method = "DELETE" -> serveDeleteS3File(req, cfg, st, w, fault)
      [] req.method = "HEAD" -> serveHeadS3File(req, cfg, st, w, fault)
      [] OTHER ->
           Handled(HttpError(w, <<"Method ", req.method, " not supported">>,
                             StatusBadRequest),
                   st, <<>>, NilErr)

\* methodHandler, main.go:216-227: the switch on the method
methodSwitch(req, cfg, st, w, readErr, fault) ==
    CASE req.method = "GET" -> serveGetS3File(req, cfg, st, w, fault)
      [] req.method = "PUT" -> servePutS3File(req, cfg, st, w, readErr, fault)
      [] req.method = "DELETE" -> serveDeleteS3File(req, cfg, st, w, fault)
      [] req.method = "HEAD" -> serveHeadS3File(req, cfg, st, w, fault)
      [] OTHER ->
           Handled(HttpError(w, <<"Method ", req.method, " not supported">>,
                             StatusMethodNotAllowed),
                   st, <<>>, NilErr)

\* path == r.URL.Path[1:]; path == "" || path[len(path)-1:] == "/"
DirLike(path) == path = <<>> \/ path[Len(path)] = "/"

\* faulty variant: the directory index is always looked up at the root
methodHandlerIndexAtRoot(req, cfg, st, w, readErr, fault) ==
    IF DirLike(Tail(req.path)) /\ cfg.Homepage = <<>>
    THEN Handled(HttpError(w, <<"Path must be provided">>, StatusBadRequest),
                 st, <<>>, NilErr)
    ELSE methodSwitch(IF DirLike(Tail(req.path))
                      THEN [req EXCEPT !.path = <<"/">> \o cfg.Homepage]
                      ELSE req,
                      cfg, st, w, readErr, fault)

\* faulty variant: only a GET without a path is refused
methodHandlerGetOnly(req, cfg, st, w, readErr, fault) ==
    IF DirLike(Tail(req.path)) /\ cfg.Homepage = <<>> /\ req.method = "GET"
    THEN Handled(HttpError(w, <<"Path must be provided">>, StatusBadRequest),
                 st, <<>>, NilErr)
    ELSE methodSwitch(IF DirLike(Tail(req.path))
                      THEN [req EXCEPT !.path = @ \o cfg.Homepage]
                      ELSE req,
                      cfg, st, w, readErr, fault)

\* methodHandler: the path check, the directory index, then the switch
methodHandler(req, cfg, st, w, readErr, fault) ==
    IF DirLike(Tail(req.path)) /\ cfg.Homepage = <<>>
    THEN Handled(HttpError(w, <<"Path must be provided">>, StatusBadRequest),
                 st, <<>>, NilErr)
    ELSE methodSwitch(IF DirLike(Tail(req.path))
                      THEN [req EXCEPT !.path = @ \o cfg.Homepage]
                      ELSE req,
                      cfg, st, w, readErr, fault)

(* The response recorded is what the chain hands to the ResponseWriter:    *)
(* the status, the headers and the bytes written.                          *)

\* gin after the NoRoute chain: its own 404 page if nothing was written and
\* the status is still 404, the bare status otherwise
AfterChain(w) ==
    IF w.written THEN w
    ELSE IF w.status = StatusNotFound
         THEN Write(SetHeader(w, "Content-Type", <<"text/plain">>), <<"404 page not found">>)
         ELSE [w EXCEPT !.written = TRUE]

Answered(h) == [h EXCEPT !.w = AfterChain(h.w)]

\* router.NoRoute(methodHandler): the handler runs on a writer whose status is 404
NoRoute(req, cfg, st, readErr, fault) ==
    Answered(methodHandler(req, cfg, st, NewWriter, readErr, fault))

----------------------------------------------------------------------------
(* Configuration *)

\* values of the homepage property: absent, or a directory index name
Homepages == {<<>>, <<"index.html">>}

webConfig(port, s3bucket, awsRegion, homepage) ==
    [Port |-> port, S3bucket |-> s3bucket, AwsRegion |-> awsRegion, Homepage |-> homepage]

\* &webConfig{}
ZeroConfig == webConfig("", "", "", <<>>)

\* a configuration file: whether it can be read, its extension, whether its
\* content parses, and the properties it sets ("" for a property left out)
ConfigFiles ==
    [readable : BOOLEAN,
     ext : {".yaml", ".yml", ".json", ".toml", ".ini"},
     wellFormed : BOOLEAN,
     port : {"", "8080"},
     s3bucket : {"", "bkt"},
     awsRegion : {"", "us-east-1"},
     homepage : Homepages]

\* values of the AWS_REGION environment variable ("" when unset)
EnvRegions == {"", "eu-central-1"}

\* getEnvOrDefault(envName, defaultVal, false), given the variable's value
getEnvOrDefault(envVal, defaultVal) == IF envVal = "" THEN defaultVal ELSE envVal

\* readConfig: the configuration and whether it failed
readConfig(file, envRegion) ==
    IF ~file.readable THEN [cfg |-> ZeroConfig, failed |-> TRUE]
    ELSE IF file.ext \notin {".yaml", ".yml", ".json", ".toml"} \/ ~file.wellFormed
         THEN [cfg |-> ZeroConfig, failed |-> TRUE]
         ELSE [cfg |-> webConfig(
                          IF file.port = "" THEN "8000" ELSE file.port,
                          file.s3bucket,
                          IF file.awsRegion = ""
                          THEN getEnvOrDefault(envRegion, "eu-west-1")
                          ELSE file.awsRegion,
                          file.homepage),
               failed |-> FALSE]

----------------------------------------------------------------------------
(* Requests *)

NoRequest == Request("", <<>>, <<>>, <<>>, <<>>)

\* no request context: the last response was sent and its context released
NoContext == [active |-> FALSE, req |-> NoRequest, calls |-> <<>>,
              err |-> NilErr, resp |-> NewWriter]

\* values <<"ETag", "If-None-Match">> of the two request headers of a HEAD
HeadTokens == {<< <<>>, <<>> >>, <<ETagOf(<<"x">>), <<>> >>, << <<>>, ETagOf(<<"x">>)>>}

\* the requests: a body on PUT, the conditional headers on HEAD (no other
\* handler reads them)
Requests ==
    {Request(m, p, <<>>, <<>>, <<>>) : m \in {"GET", "DELETE", "PATCH"}, p \in Paths}
    \cup {Request("HEAD", p, t[1], t[2], <<>>) : p \in Paths, t \in HeadTokens}
    \cup {Request("PUT", p, <<>>, <<>>, b) : p \in Paths, b \in Bodies}

\* the requests of the lifecycle specification
LifeRequests == {Request("GET", <<"/", "a">>, <<>>, <<>>, <<>>)}

----------------------------------------------------------------------------
(* Actions of main *)

\* main.go:276-280: readConfig, log.Fatalf on failure
ReadConfig(file, envRegion) ==
    /\ exit = "running" /\ pc = "start"
    /\ LET r == readConfig(file, envRegion) IN
       IF r.failed
       THEN exit' = "exit1" /\ UNCHANGED <<pc, configHolder>>
       ELSE configHolder' = r.cfg /\ pc' = "configured" /\ UNCHANGED exit
    /\ UNCHANGED <<srv, ctx, sigSent, inflight, store, last>>

\* main.go:283-305: session, router, server, go ListenAndServe
StartServer ==
    /\ exit = "running" /\ pc = "configured"
    /\ pc' = "started" /\ srv' = "starting"
    /\ UNCHANGED <<exit, configHolder, ctx, sigSent, inflight, store, last>>

\* the goroutine: srv.ListenAndServe() binds the port and serves
Listen ==
    /\ exit = "running" /\ srv = "starting"
    /\ srv' = "listening"
    /\ UNCHANGED <<pc, exit, configHolder, ctx, sigSent, inflight, store, last>>

\* the goroutine: srv.ListenAndServe() fails (port in use): log.Fatalf
ListenFails ==
    /\ exit = "running" /\ srv = "starting"
    /\ exit' = "exit1"
    /\ UNCHANGED <<pc, configHolder, srv, ctx, sigSent, inflight, store, last>>

\* main.go:309-313: quit := make(chan os.Signal); signal.Notify(quit, ...)
Notify ==
    /\ exit = "running" /\ pc = "started"
    /\ pc' = "notified"
    /\ UNCHANGED <<exit, configHolder, srv, ctx, sigSent, inflight, store, last>>

\* main.go:314: main blocks in <-quit
Park ==
    /\ exit = "running" /\ pc = "notified"
    /\ pc' = "waiting"
    /\ UNCHANGED <<exit, configHolder, srv, ctx, sigSent, inflight, store, last>>

(* A SIGINT or SIGTERM reaches the process.  Before signal.Notify the      *)
(* default disposition ends the process.  After it, the runtime sends on   *)
(* quit without blocking: quit is unbuffered, so the signal is received    *)
(* only if main is blocked in <-quit, and is dropped otherwise.            *)
Signal ==
    /\ exit = "running" /\ sigSent < MaxSignals
    /\ sigSent' = sigSent + 1
    /\ IF pc \in {"start", "configured", "started"}
       THEN exit' = "killed" /\ UNCHANGED pc
       ELSE IF pc = "waiting"
            THEN pc' = "signalled" /\ UNCHANGED exit
            ELSE UNCHANGED <<pc, exit>>
    /\ UNCHANGED <<configHolder, srv, ctx, inflight, store, last>>

(* main.go:317-319: context.WithTimeout(GracefullTimeout); srv.Shutdown    *)
(* closes the listeners, and returns nil at once if no request is in       *)
(* flight.                                                                 *)
Shutdown ==
    /\ exit = "running" /\ pc = "signalled"
    /\ ctx' = "running"
    /\ srv' = "closed"
    /\ pc' = IF inflight = 0 THEN "drain" ELSE "shutdown"
    /\ UNCHANGED <<exit, configHolder, sigSent, inflight, store, last>>

\* srv.Shutdown polls: it returns nil once no request is in flight
ShutdownPoll ==
    /\ exit = "running" /\ pc = "shutdown" /\ inflight = 0
    /\ pc' = "drain"
    /\ UNCHANGED <<exit, configHolder, srv, ctx, sigSent, inflight, store, last>>

\* srv.Shutdown, between two polls, sees ctx.Done(): it returns ctx.Err()
\* and main calls log.Fatal (main.go:319-321)
ShutdownTimeout ==
    /\ exit = "running" /\ pc = "shutdown" /\ ctx = "done"
    /\ exit' = "exit1"
    /\ UNCHANGED <<pc, configHolder, srv, ctx, sigSent, inflight, store, last>>

\* the timer of the context fires after GracefullTimeout seconds
CtxExpires ==
    /\ exit = "running" /\ ctx = "running"
    /\ ctx' = "done"
    /\ UNCHANGED <<pc, exit, configHolder, srv, sigSent, inflight, store, last>>

\* main.go:323-328: <-ctx.Done(), then main returns
Exit ==
    /\ exit = "running" /\ pc = "drain" /\ ctx = "done"
    /\ exit' = "exit0"
    /\ UNCHANGED <<pc, configHolder, srv, ctx, sigSent, inflight, store, last>>

----------------------------------------------------------------------------
(* Actions of the server *)

\* the listening server accepts a request and starts its handler
Accept ==
    /\ exit = "running" /\ srv = "listening" /\ inflight < MaxInFlight
    /\ inflight' = inflight + 1
    /\ UNCHANGED <<pc, exit, configHolder, srv, ctx, sigSent, store, last>>

\* the outcome h of the handler of req becomes the state
Respond(req, h) ==
    /\ Cardinality(DOMAIN h.store) <= MaxObjects
    /\ store' = h.store
    /\ last' = [active |-> TRUE, req |-> req, calls |-> h.calls,
                err |-> h.err, resp |-> h.w]

\* the handler of one request in flight runs: router -> NoRoute -> methodHandler
Serve(req, readErr, fault) ==
    /\ exit = "running" /\ inflight > 0 /\ ~last.active
    /\ Respond(req, NoRoute(req, configHolder, store, readErr, fault))
    /\ inflight' = inflight - 1
    /\ UNCHANGED <<pc, exit, configHolder, srv, ctx, sigSent>>

\* the response is on the wire; gin takes the context back
Release ==
    /\ exit = "running" /\ last.active
    /\ last' = NoContext
    /\ UNCHANGED <<pc, exit, configHolder, srv, ctx, sigSent, inflight, store>>

ServeAny ==
    \E req \in Requests :
        \E readErr \in (IF req.method = "PUT" THEN ReadFaults ELSE {NilErr}) :
            \E fault \in (IF req.method = "PATCH" THEN {NilErr} ELSE StoreFaults) :
                Serve(req, readErr, fault)

ServeLife == \E req \in LifeRequests : Serve(req, NilErr, NilErr)

----------------------------------------------------------------------------
(* Specifications *)

\* the server in service: configuration loaded, listening, main in <-quit
Init ==
    /\ pc = "waiting" /\ exit = "running"
    /\ configHolder \in {webConfig("8000", "bkt", "eu-west-1", h) : h \in Homepages}
    /\ srv = "listening" /\ ctx = "none" /\ sigSent = 0
    /\ inflight = 0 /\ store = EmptyStore /\ last = NoContext

Next == Accept \/ ServeAny \/ Release

Spec == Init /\ [][Next]_vars

\* the process from its start
InitLife ==
    /\ pc = "start" /\ exit = "running"
    /\ configHolder = ZeroConfig
    /\ srv = "none" /\ ctx = "none" /\ sigSent = 0
    /\ inflight = 0 /\ store = EmptyStore /\ last = NoContext

MainStep ==
    \/ \E file \in ConfigFiles, envRegion \in EnvRegions : ReadConfig(file, envRegion)
    \/ StartServer \/ Notify \/ Park \/ Shutdown \/ ShutdownPoll \/ ShutdownTimeout \/ Exit

NextLife ==
    \/ MainStep
    \/ Listen \/ ListenFails
    \/ Signal
    \/ CtxExpires
    \/ Accept \/ ServeLife \/ Release

SpecLife == InitLife /\ [][NextLife]_vars

\* the Go scheduler runs main and the goroutines, and timers fire
FairSpecLife ==
    /\ SpecLife
    /\ WF_vars(MainStep)
    /\ WF_vars(Listen \/ ListenFails)
    /\ WF_vars(CtxExpires)

----------------------------------------------------------------------------
(* Properties.  The vocabulary of the specification document: the          *)
(* candidate key, the resolved key, the supported methods.                 *)

Supported == {"GET", "HEAD", "PUT", "DELETE"}

\* the request path with its single leading "/" stripped
Candidate(p) == SubSeq(p, 2, Len(p))

\* a candidate that is empty or ends in "/"
IsDirectory(c) == Len(c) = 0 \/ c[Len(c)] = "/"

\* the key of request path p under default index name idx
ResolvedKey(p, idx) == IF IsDirectory(Candidate(p)) THEN Candidate(p) \o idx ELSE Candidate(p)

\* the request path resolves to a key: it is not a directory without a default index
Resolves(p, idx) == ~(IsDirectory(Candidate(p)) /\ idx = <<>>)

\* a message as http.Error writes it: the text and a line end
Line(msg) == msg \o <<"\n">>

\* the store operation of each supported method
OpOf(method) == CASE method = "GET" -> "GetObject" [] method = "HEAD" -> "HeadObject"
                  [] method = "PUT" -> "PutObject" [] method = "DELETE" -> "DeleteObject"

\* the request was stopped by a failed read of its body
BodyReadFailed(c) == c.req.method = "PUT" /\ ~c.err.isNil /\ ~c.err.aws

LastKey == ResolvedKey(last.req.path, configHolder.Homepage)

(* C1: for every request of a supported method whose path resolves, the    *)
(* one store operation issued is the method's, on the key that is the path *)
(* without its leading "/" -- verbatim when that is non-empty and does not *)
(* end in "/", followed by the default index name when it is empty or ends *)
(* in "/" -- and the 404 message names the same key.                       *)
C1_ResolvedKey ==
    (last.active /\ last.req.method \in Supported
       /\ Resolves(last.req.path, configHolder.Homepage))
    => /\ IF BodyReadFailed(last) THEN last.calls = <<>> ELSE Len(last.calls) = 1
       /\ \A i \in 1..Len(last.calls) :
             /\ last.calls[i].op = OpOf(last.req.method)
             /\ last.calls[i].key = LastKey
       /\ (last.err.code \in {"NoSuchKey", "NotFound"}
             => last.resp.body
                  = Line(<<"Path '">> \o LastKey \o <<"' not found: ", last.err.message>>))

\* a store operation issued on a directory path's key, the default index appended
C1_Witness ==
    /\ last.active /\ last.calls # <<>>
    /\ last.req.path = <<"/", "/">>
    /\ last.calls[1].key = <<"/", "index.html">>

(* C2: a request, of any method, whose path without the leading "/" is     *)
(* empty or ends in "/" is answered 400 "Path must be provided" when no    *)
(* default index name is configured, and issues no store operation.        *)
C2_PathMustBeProvided ==
    (last.active /\ IsDirectory(Candidate(last.req.path)) /\ configHolder.Homepage = <<>>)
    => /\ last.resp.status = StatusBadRequest
       /\ last.resp.body = Line(<<"Path must be provided">>)
       /\ last.calls = <<>>

\* a PUT on a directory path answered 400 without a store operation
C2_Witness ==
    /\ last.active /\ last.req.method = "PUT" /\ last.req.path = <<"/", "/">>
    /\ configHolder.Homepage = <<>>
    /\ last.resp.status = StatusBadRequest /\ last.calls = <<>>

ClassStatus(err) ==
    IF err.aws /\ err.code \in {"NoSuchKey", "NotFound"} THEN StatusNotFound
    ELSE IF err.aws /\ err.code = "NotModified" THEN StatusNotModified
    ELSE IF err.aws /\ err.code = "MissingContentLength" THEN StatusBadRequest
    ELSE StatusInternalServerError

\* the headers only a success sets
SuccessHeaders == {"Content-Length", "Last-Modified", "Etag", "Location"}

(* C4: when a store operation or the read of a PUT body returns an error,  *)
(* the status is the one of the error's class -- 404 for NoSuchKey and     *)
(* NotFound, with the body "Path '<key>' not found: <message>", 304 for    *)
(* NotModified, 400 for MissingContentLength, 500 for any other code and   *)
(* for an untyped error -- never a 2xx, and no success header is set.      *)
C4_ErrorClassification ==
    (last.active /\ ~last.err.isNil)
    => /\ last.resp.status = ClassStatus(last.err)
       /\ last.resp.status \in {StatusBadRequest, StatusNotModified, StatusNotFound,
                                StatusInternalServerError}
       /\ ~(last.resp.status >= 200 /\ last.resp.status < 300)
       /\ (last.resp.status = StatusNotFound
             => last.resp.body
                  = Line(<<"Path '">> \o LastKey \o <<"' not found: ", last.err.message>>))
       /\ \A h \in SuccessHeaders : last.resp.header[h] = <<>>
       /\ last.resp.header["Content-Type"] = <<"text/plain; charset=utf-8">>

\* a HEAD of a missing key: the store's NotFound answered 404
C4_Witness ==
    /\ last.active /\ last.req.method = "HEAD"
    /\ last.err.code = "NotFound" /\ last.resp.status = StatusNotFound

\* the bucket after the step differs from the bucket before it at most in key k
SameButFor(k) ==
    /\ DOMAIN store' \ {k} = DOMAIN store \ {k}
    /\ \A x \in DOMAIN store \ {k} : store'[x] = store[x]

\* one step that answers a request: what the document says of it, given the
\* bucket before (store) and after (store') and the answer (last')
C5_Step ==
    LET c == last'
        k == ResolvedKey(c.req.path, configHolder.Homepage)
        resolves == Resolves(c.req.path, configHolder.Homepage)
    IN /\ (c.req.method = "PUT" /\ resolves /\ ~BodyReadFailed(c))
            => /\ Len(c.calls) = 1 /\ c.calls[1].op = "PutObject"
               /\ c.calls[1].body = c.req.body
               /\ SameButFor(k)
               /\ IF c.err.isNil
                  THEN k \in DOMAIN store' /\ store'[k].body = c.req.body
                  ELSE store' = store
       /\ (c.req.method = "DELETE" /\ resolves)
            => /\ Len(c.calls) = 1 /\ c.calls[1].op = "DeleteObject"
               /\ SameButFor(k)
               /\ IF c.err.isNil
                  THEN k \notin DOMAIN store' /\ c.resp.status = StatusNoContent
                  ELSE store' = store
       /\ (c.req.method = "GET" /\ resolves)
            => /\ Len(c.calls) = 1 /\ c.calls[1].op = "GetObject"
               /\ store' = store
               /\ IF k \in DOMAIN store
                  THEN /\ c.resp.status # StatusNotFound
                       /\ c.err.isNil
                            => /\ c.resp.status = StatusOK
                               /\ c.resp.body = store[k].body
                  ELSE /\ c.resp.status # StatusOK
                       /\ ~c.err.isNil
                       /\ c.err.code = "NoSuchKey" => c.resp.status = StatusNotFound
       /\ (c.req.method \notin {"PUT", "DELETE"} \/ ~resolves \/ BodyReadFailed(c))
            => store' = store

(* C5: every PUT and every DELETE whose path resolves issues its own store *)
(* operation, whatever was answered before; a successful PUT leaves its    *)
(* body under the key and a successful DELETE leaves the key absent;       *)
(* nothing else changes the bucket; and a GET is answered from the bucket  *)
(* as it is then: 200 with the stored body when the key is present, 404    *)
(* when the store reports it absent.  So a GET that follows PUTs and       *)
(* DELETEs on a key reports the last successful one.                       *)
C5_StoreDecides == [][(~last.active /\ last'.active) => C5_Step]_vars

\* a GET answered 200 with the body a PUT left in the bucket
C5_Witness ==
    /\ last.active /\ last.req.method = "GET"
    /\ last.resp.status = StatusOK
    /\ LastKey \in DOMAIN store
    /\ last.resp.body = store[LastKey].body
    /\ last.resp.body = <<"y", "y">>

(* C6: a HEAD for a key the bucket holds is answered 200 with the object's *)
(* Content-Type, Last-Modified, Etag and Content-Length, and no body.      *)
C6_HeadFound ==
    (last.active /\ last.req.method = "HEAD" /\ last.err.isNil
       /\ Resolves(last.req.path, configHolder.Homepage)
       /\ LastKey \in DOMAIN store)
    => /\ last.resp.status = StatusOK
       /\ last.resp.header["Content-Type"] = store[LastKey].contentType
       /\ last.resp.header["Last-Modified"] = store[LastKey].lastModified
       /\ last.resp.header["Etag"] = ETagOf(store[LastKey].body)
       /\ last.resp.header["Content-Length"] # <<>>
       /\ last.resp.body = <<>>

(* C7: a PUT whose body read and store put both succeed is answered 201    *)
(* with the Etag the store returned, Location "/" + the resolved key, and  *)
(* no body; the put carries the whole request body.                        *)
C7_PutCreated ==
    (last.active /\ last.req.method = "PUT" /\ last.err.isNil
       /\ Resolves(last.req.path, configHolder.Homepage))
    => /\ last.resp.status = StatusCreated
       /\ last.resp.header["Etag"] = ETagOf(last.req.body)
       /\ last.resp.header["Location"] = <<"/">> \o LastKey
       /\ last.resp.body = <<>>
       /\ Len(last.calls) = 1 /\ last.calls[1].body = last.req.body

(* C8: a HEAD that carries a token in If-None-Match passes that token to   *)
(* the store's head operation, and is answered 304 when the store reports  *)
(* the object unchanged.                                                   *)
C8_IfNoneMatch ==
    (last.active /\ last.req.method = "HEAD" /\ last.req.ifNoneMatch # <<>>
       /\ Resolves(last.req.path, configHolder.Homepage))
    => /\ Len(last.calls) = 1
       /\ last.calls[1].ifNoneMatch = last.req.ifNoneMatch
       /\ (last.err.code = "NotModified" => last.resp.status = StatusNotModified)

(* C9: with no s3bucket in the loaded configuration the process exits      *)
(* before the server listens: the server never listens, and no store       *)
(* operation is ever issued, with an empty bucket name.                    *)
C9_BucketMandatory ==
    /\ srv = "listening" => configHolder.S3bucket # ""
    /\ last.active => \A i \in 1..Len(last.calls) : last.calls[i].bucket # ""

(* C10: after a shutdown signal no new request is accepted; the process    *)
(* ends with exit code 1 only if a request was still in flight when the    *)
(* grace period ran out, so with code 0 when all finished within it; and   *)
(* the process eventually exits.                                           *)
C10_GracefulShutdown ==
    /\ [][sigSent > 0 => inflight' <= inflight]_vars
    /\ []((sigSent > 0 /\ exit = "exit1" /\ pc = "shutdown") => inflight > 0)
    /\ (sigSent > 0) ~> (exit # "running")

====
